---- MODULE Spec2Model ----
(***************************************************************************)
(* Risk-assessment tracker: the audited update protocol of app.py          *)
(* (risk_update), the two spreadsheet imports (the web upload import_data  *)
(* of app.py and the command-line import_excel_data of import_data.py),    *)
(* the lookup seeding (init_db, init_lookup_tables) and the record read    *)
(* (risk_detail), over one relational store.                               *)
(*                                                                         *)
(* Conventions.  A nullable column or an optional form field is <<>> for   *)
(* None and <<v>> for a value v.  Text that the code searches, trims or    *)
(* slices (asset names, STRIDE cells) is a sequence of one-character       *)
(* strings; text that is only stored and compared is a string.  A table    *)
(* with an autoincrement key is a sequence of rows: the id is the index.   *)
(* Spreadsheets are given with their sheets and columns already located.   *)
(***************************************************************************)
EXTENDS Integers, Sequences, FiniteSets, TLC

-----------------------------------------------------------------------------
(* Python values *)

None == <<>>

Some(v) == <<v>>

\* bool(x) of an optional int: None and 0 are false
TruthyInt(o) == o # None /\ o[1] # 0

\* bool(x) of an optional str: None and '' are false
TruthyStr(o) == o # None /\ o[1] # ""

\* str(x) if x else None, of an optional str
StrOrNone(o) == IF TruthyStr(o) THEN o ELSE None

Range(s) == {s[i] : i \in 1..Len(s)}

-----------------------------------------------------------------------------
(* Text operations on character sequences *)

Upper == <<"A", "B", "C", "D", "E", "F", "G", "H", "I", "J", "K", "L", "M", "N", "O", "P", "Q", "R", "S", "T", "U", "V", "W", "X", "Y", "Z">>

LowerCase == <<"a", "b", "c", "d", "e", "f", "g", "h", "i", "j", "k", "l", "m", "n", "o", "p", "q", "r", "s", "t", "u", "v", "w", "x", "y", "z">>

\* str.lower(), one character
LowerChar(c) == IF \E i \in 1..Len(Upper) : Upper[i] = c THEN LowerCase[CHOOSE i \in 1..Len(Upper) : Upper[i] = c] ELSE c

\* str.lower()
Lower(s) == [i \in 1..Len(s) |-> LowerChar(s[i])]

\* sub in s
Contains(s, sub) == \E i \in 1..(Len(s) - Len(sub) + 1) : SubSeq(s, i, i + Len(sub) - 1) = sub

RECURSIVE LStrip(_)
LStrip(s) == IF s # <<>> /\ Head(s) = " " THEN LStrip(Tail(s)) ELSE s

RECURSIVE RStrip(_)
RStrip(s) == IF s # <<>> /\ s[Len(s)] = " " THEN RStrip(SubSeq(s, 1, Len(s) - 1)) ELSE s

\* str.strip()
Strip(s) == RStrip(LStrip(s))

\* s[:n]
Prefix(s, n) == SubSeq(s, 1, IF Len(s) < n THEN Len(s) ELSE n)

KwTo == <<" ", "t", "o", " ">>

KwManagement == <<"m", "a", "n", "a", "g", "e", "m", "e", "n", "t">>

KwAuthentication == <<"a", "u", "t", "h", "e", "n", "t", "i", "c", "a", "t", "i", "o", "n">>

KwCalculate == <<"c", "a", "l", "c", "u", "l", "a", "t", "e">>

ProcessKeywords == {KwManagement, KwAuthentication, KwCalculate}

-----------------------------------------------------------------------------
(* Lookup seed data: init_db and init_lookup_tables insert the same rows *)

stride_data == << [code |-> "S", name |-> "Spoofing"], [code |-> "T", name |-> "Tampering"], [code |-> "R", name |-> "Repudiation"], [code |-> "I", name |-> "Information Disclosure"], [code |-> "D", name |-> "Denial of Service"], [code |-> "E", name |-> "Elevation of Privilege"], [code |-> "L", name |-> "Lateral Movement"] >>

severity_data == << [name |-> "2 - Minor", value |-> 2], [name |-> "3 - Serious", value |-> 3], [name |-> "4 - CRITICAL", value |-> 4] >>

exploit_data == << [name |-> "1 - Low", value |-> 1], [name |-> "3 - Medium", value |-> 3], [name |-> "5 - High", value |-> 5] >>

ratings == << [name |-> "Acceptable"], [name |-> "Mitigation Desirable"], [name |-> "Remediation Required"] >>

\* the store before db.create_all() has inserted anything
EmptyDb == [stride_category |-> <<>>, severity_level |-> <<>>, exploit_risk_level |-> <<>>, risk_rating |-> <<>>, asset |-> <<>>, control |-> <<>>, risk_assessment |-> <<>>, audit_log |-> <<>>]

\* the four lookup inserts and their commit
SeedRows(d) == [d EXCEPT !.stride_category = @ \o stride_data, !.severity_level = @ \o severity_data, !.exploit_risk_level = @ \o exploit_data, !.risk_rating = @ \o ratings]

\* faulty variant: the seed is inserted without looking at the table
InitDb_Unguarded(d) == SeedRows(d)

\* init_db: seed only if the stride table is empty
InitDb(d) == IF Len(d.stride_category) = 0 THEN SeedRows(d) ELSE d

\* import_excel_data, "Initialize lookup tables if empty"
InitLookupTables(d) == IF Len(d.stride_category) = 0 THEN SeedRows(d) ELSE d

-----------------------------------------------------------------------------
(* Queries of the store *)

\* Model.query.get(id) on an autoincrement table: the row, or None
GetRow(table, oid) == IF oid # None /\ oid[1] \in 1..Len(table) THEN Some(table[oid[1]]) ELSE None

\* the name shown for a lookup relationship: row.name if row else None
NameOf(table, oid) == IF GetRow(table, oid) # None THEN Some(GetRow(table, oid)[1].name) ELSE None

\* {row.name: row.id for row in Model.query.all()}.get(name); a later row wins
IdByName(table, oname) == IF oname # None /\ \E i \in 1..Len(table) : table[i].name = oname[1] THEN Some(CHOOSE i \in 1..Len(table) : table[i].name = oname[1] /\ \A j \in 1..Len(table) : table[j].name = oname[1] => j <= i) ELSE None

\* RiskAssessment.query.filter_by(assessment_number=n).first() is not None
NumberExists(rows, n) == \E i \in 1..Len(rows) : rows[i].assessment_number = n

\* Asset.query.filter_by(name=name).first() is not None
AssetExists(rows, name) == \E i \in 1..Len(rows) : rows[i].name = name

\* Control.query.get(id) is not None
ControlExists(rows, cid) == \E i \in 1..Len(rows) : rows[i].id = cid

StrideCodes(d) == {d.stride_category[i].code : i \in 1..Len(d.stride_category)}

-----------------------------------------------------------------------------
(* risk_update: the field diff of one submitted form against the loaded row *)

UpdateYear == 2026

UnknownActor == "Unknown"

\* request.form.get('reviewed_by', 'Unknown')
ActorOf(form) == IF form.reviewed_by = None THEN UnknownActor ELSE form.reviewed_by[1]

\* request.form.get('notes', '')
NotesOf(form) == IF form.notes = None THEN Some("") ELSE form.notes

\* "Update post-mitigation exploit risk": st is [risk, changes]
DiffExploit(d, st, form) == IF TruthyInt(form.post_exploit_risk_id) /\ form.post_exploit_risk_id # st.risk.post_exploit_risk_id THEN [risk |-> [st.risk EXCEPT !.post_exploit_risk_id = form.post_exploit_risk_id], changes |-> Append(st.changes, [field |-> "post_exploit_risk", old |-> NameOf(d.exploit_risk_level, st.risk.post_exploit_risk_id), new |-> NameOf(d.exploit_risk_level, form.post_exploit_risk_id)])] ELSE st

\* "Update post-mitigation risk rating"
DiffRating(d, st, form) == IF TruthyInt(form.post_risk_rating_id) /\ form.post_risk_rating_id # st.risk.post_risk_rating_id THEN [risk |-> [st.risk EXCEPT !.post_risk_rating_id = form.post_risk_rating_id], changes |-> Append(st.changes, [field |-> "post_risk_rating", old |-> NameOf(d.risk_rating, st.risk.post_risk_rating_id), new |-> NameOf(d.risk_rating, form.post_risk_rating_id)])] ELSE st

\* faulty variant: the old notes are read after the assignment
DiffNotes_OldAfter(st, form) == IF NotesOf(form) # st.risk.notes THEN [risk |-> [st.risk EXCEPT !.notes = NotesOf(form)], changes |-> Append(st.changes, [field |-> "notes", old |-> NotesOf(form), new |-> NotesOf(form)])] ELSE st

\* "Update notes"
DiffNotes(st, form) == IF NotesOf(form) # st.risk.notes THEN [risk |-> [st.risk EXCEPT !.notes = NotesOf(form)], changes |-> Append(st.changes, [field |-> "notes", old |-> st.risk.notes, new |-> NotesOf(form)])] ELSE st

\* faulty variant: the first reviewer is kept on a later transition
StampReview_KeepFirst(risk, form, now) == IF form.review_status[1] \in {"reviewed", "approved"} THEN [risk EXCEPT !.reviewed_at = Some(now), !.reviewed_by = IF risk.reviewed_by = None THEN Some(ActorOf(form)) ELSE risk.reviewed_by] ELSE risk

\* faulty variant: every status change stamps the reviewer, a return to pending included
StampReview_AnyChange(risk, form, now) == [risk EXCEPT !.reviewed_at = Some(now), !.reviewed_by = Some(ActorOf(form))]

\* the reviewer stamp of a transition into reviewed or approved
StampReview(risk, form, now) == IF form.review_status[1] \in {"reviewed", "approved"} THEN [risk EXCEPT !.reviewed_at = Some(now), !.reviewed_by = Some(ActorOf(form))] ELSE risk

\* faulty variant: an approved record no longer changes its status
DiffStatus_ApprovedTerminal(st, form, now) == IF TruthyStr(form.review_status) /\ form.review_status # st.risk.review_status /\ st.risk.review_status # Some("approved") THEN [risk |-> StampReview([st.risk EXCEPT !.review_status = form.review_status], form, now), changes |-> Append(st.changes, [field |-> "review_status", old |-> st.risk.review_status, new |-> form.review_status])] ELSE st

\* "Update review status"
DiffStatus(st, form, now) == IF TruthyStr(form.review_status) /\ form.review_status # st.risk.review_status THEN [risk |-> StampReview([st.risk EXCEPT !.review_status = form.review_status], form, now), changes |-> Append(st.changes, [field |-> "review_status", old |-> st.risk.review_status, new |-> form.review_status])] ELSE st

\* "Update year"
SetYear(risk) == [risk EXCEPT !.assessment_year = Some(UpdateYear)]

\* AuditLog(...) of one tracked change
AuditRow(risk_id, change, form) == [risk_id |-> risk_id, action |-> "updated", field_changed |-> change.field, old_value |-> StrOrNone(change.old), new_value |-> StrOrNone(change.new), changed_by |-> ActorOf(form)]

\* "Save audit logs"
AuditRows(risk_id, changes, form) == [i \in 1..Len(changes) |-> AuditRow(risk_id, changes[i], form)]

\* the handler body between the load of the row and the commit
Diff(d, risk, form, now) == DiffStatus(DiffNotes(DiffRating(d, DiffExploit(d, [risk |-> risk, changes |-> <<>>], form), form), form), form, now)

\* what the session holds when db.session.commit() is reached
Stage(d, risk_id, risk, form, now) == LET st == Diff(d, risk, form, now) IN [pc |-> "staged", risk_id |-> risk_id, form |-> form, loaded |-> risk, staged |-> SetYear(st.risk), logs |-> AuditRows(risk_id, st.changes, form)]

\* the UPDATE the flush emits: only the columns the session changed
Flush(current, loaded, staged) == [f \in DOMAIN current |-> IF staged[f] # loaded[f] THEN staged[f] ELSE current[f]]

\* foreign keys of a risk_assessment row, as the store checks them when it enforces them
FkHolds(d, row) == /\ row.asset_id \in 1..Len(d.asset)
                   /\ row.stride_code = None \/ row.stride_code[1] \in StrideCodes(d)
                   /\ row.severity_id = None \/ row.severity_id[1] \in 1..Len(d.severity_level)
                   /\ row.pre_exploit_risk_id = None \/ row.pre_exploit_risk_id[1] \in 1..Len(d.exploit_risk_level)
                   /\ row.post_exploit_risk_id = None \/ row.post_exploit_risk_id[1] \in 1..Len(d.exploit_risk_level)
                   /\ row.pre_risk_rating_id = None \/ row.pre_risk_rating_id[1] \in 1..Len(d.risk_rating)
                   /\ row.post_risk_rating_id = None \/ row.post_risk_rating_id[1] \in 1..Len(d.risk_rating)

\* faulty variant: the row is committed before the audit rows are added
CommitUpdate_RowOnly(d, s) == [d EXCEPT !.risk_assessment[s.risk_id] = Flush(@, s.loaded, s.staged)]

\* faulty variant: a commit whose row was changed since it was loaded is dropped
CommitUpdate_IfFresh(d, s) == IF d.risk_assessment[s.risk_id] # s.loaded THEN d ELSE [d EXCEPT !.risk_assessment[s.risk_id] = Flush(@, s.loaded, s.staged), !.audit_log = @ \o s.logs]

\* db.session.commit() of a staged update: one transaction for the row and its audit rows
CommitUpdate(d, s) == [d EXCEPT !.risk_assessment[s.risk_id] = Flush(@, s.loaded, s.staged), !.audit_log = @ \o s.logs]

-----------------------------------------------------------------------------
(* The imports.  A document is [risks, controls]: the rows of the risk sheet,
   and the rows of the controls sheet or None when the workbook has none.
   A risk row is [num, asset, stride, severity, pre_exploit, pre_rating,
   post_exploit, post_rating]; a controls row is [measure, description, tag];
   an empty cell is None. *)

ImportYear == 2025

BatchSize == 100

DescriptionMax == 1000

TagMax == 10

Digits == <<"0", "1", "2", "3", "4", "5", "6", "7", "8", "9">>

\* f"C-{n:04d}"
CtrlId(n) == <<"C", "-", Digits[((n \div 1000) % 10) + 1], Digits[((n \div 100) % 10) + 1], Digits[((n \div 10) % 10) + 1], Digits[(n % 10) + 1]>>

\* the positions of a column at which a cell appears for the first time
FirstSeen(cells) == {i \in 1..Len(cells) : \A j \in 1..(i - 1) : cells[j] # cells[i]}

\* Series.unique(): the distinct cells in order of first appearance
Unique(cells) == [k \in 1..Cardinality(FirstSeen(cells)) |-> cells[CHOOSE i \in FirstSeen(cells) : Cardinality({j \in FirstSeen(cells) : j < i}) = k - 1]]

AssetCells(doc) == Unique([i \in 1..Len(doc.risks) |-> doc.risks[i].asset])

\* app.py:458
WebAssetType(name) == IF Contains(name, KwTo) THEN "DataFlow" ELSE "Component"

\* import_data.py:35-39, on the cell as read (before strip)
CliAssetType(cell) == IF Contains(cell, KwTo) THEN "DataFlow" ELSE IF \E k \in ProcessKeywords : Contains(Lower(cell), k) THEN "Process" ELSE "Component"

\* faulty variant: an asset that is already stored is typed again from its name
RECURSIVE WebAssetPass_Retype(_, _)
WebAssetPass_Retype(cells, acc) == IF cells = <<>> THEN acc ELSE WebAssetPass_Retype(Tail(cells), IF Head(cells) # None /\ Strip(Head(cells)[1]) # <<>> THEN (IF AssetExists(acc.asset, Strip(Head(cells)[1])) THEN [acc EXCEPT !.asset = [i \in 1..Len(acc.asset) |-> IF acc.asset[i].name = Strip(Head(cells)[1]) THEN [acc.asset[i] EXCEPT !.asset_type = WebAssetType(acc.asset[i].name)] ELSE acc.asset[i]]] ELSE [asset |-> Append(acc.asset, [name |-> Strip(Head(cells)[1]), asset_type |-> WebAssetType(Strip(Head(cells)[1]))]), n |-> acc.n + 1]) ELSE acc)

\* app.py:455-460: acc is [asset, n]
RECURSIVE WebAssetPass(_, _)
WebAssetPass(cells, acc) == IF cells = <<>> THEN acc ELSE WebAssetPass(Tail(cells), IF Head(cells) # None /\ Strip(Head(cells)[1]) # <<>> /\ ~AssetExists(acc.asset, Strip(Head(cells)[1])) THEN [asset |-> Append(acc.asset, [name |-> Strip(Head(cells)[1]), asset_type |-> WebAssetType(Strip(Head(cells)[1]))]), n |-> acc.n + 1] ELSE acc)

\* import_data.py:30-43
RECURSIVE CliAssetPass(_, _)
CliAssetPass(cells, acc) == IF cells = <<>> THEN acc ELSE CliAssetPass(Tail(cells), IF Head(cells) # None /\ ~AssetExists(acc.asset, Strip(Head(cells)[1])) THEN [asset |-> Append(acc.asset, [name |-> Strip(Head(cells)[1]), asset_type |-> CliAssetType(Head(cells)[1])]), n |-> acc.n + 1] ELSE acc)

\* app.py:476-486: acc is [control, n, counter]
RECURSIVE WebControlPass(_, _)
WebControlPass(rows, acc) == IF rows = <<>> THEN acc ELSE WebControlPass(Tail(rows), IF Head(rows).measure # None /\ ~ControlExists(acc.control, CtrlId(acc.counter)) THEN [control |-> Append(acc.control, [id |-> CtrlId(acc.counter), name |-> CtrlId(acc.counter), description |-> Some(Prefix(Strip(Head(rows).measure[1]), DescriptionMax)), category_tag |-> None]), n |-> acc.n + 1, counter |-> acc.counter + 1] ELSE acc)

\* x[:n] if the cell is not empty else None
Cut(cell, n) == IF cell # None THEN Some(Prefix(cell[1], n)) ELSE None

\* import_data.py:50-63: acc is [control, n]
RECURSIVE CliControlPass(_, _)
CliControlPass(rows, acc) == IF rows = <<>> THEN acc ELSE CliControlPass(Tail(rows), IF Head(rows).measure # None /\ ~ControlExists(acc.control, Strip(Head(rows).measure[1])) THEN [control |-> Append(acc.control, [id |-> Strip(Head(rows).measure[1]), name |-> Strip(Head(rows).measure[1]), description |-> Cut(Head(rows).description, DescriptionMax), category_tag |-> Cut(Head(rows).tag, TagMax)]), n |-> acc.n + 1] ELSE acc)

\* asset_map.get(name): {a.name: a.id for a in Asset.query.all()}
AssetId(assets, ocell) == IF ocell # None /\ AssetExists(assets, Strip(ocell[1])) THEN Some(CHOOSE i \in 1..Len(assets) : assets[i].name = Strip(ocell[1])) ELSE None

\* str(cell)[:1]
StrideCode(ocell) == IF ocell # None THEN Some(Prefix(ocell[1], 1)[1]) ELSE None

\* a new RiskAssessment row; the columns the constructor is not given are None
NewRisk(num, asset_id, stride, sev, pre_e, pre_r, post_e, post_r) == [assessment_number |-> num, asset_id |-> asset_id, stride_code |-> stride, severity_id |-> sev, pre_exploit_risk_id |-> pre_e, pre_risk_rating_id |-> pre_r, post_exploit_risk_id |-> post_e, post_risk_rating_id |-> post_r, assessment_year |-> Some(ImportYear), review_status |-> Some("pending"), reviewed_by |-> None, reviewed_at |-> None, notes |-> None]

\* app.py:522-529
WebRisk(d, num, asset_id, row) == NewRisk(num, asset_id, StrideCode(row.stride), None, None, None, None, None)

\* import_data.py:105-123
CliRisk(d, num, asset_id, row) == NewRisk(num, asset_id, StrideCode(row.stride), IdByName(d.severity_level, row.severity), IdByName(d.exploit_risk_level, row.pre_exploit), IdByName(d.risk_rating, row.pre_rating), IdByName(d.exploit_risk_level, row.post_exploit), IdByName(d.risk_rating, row.post_rating))

\* app.py:498-501: the number of the row, or the session count plus one
WebNumber(row, imported) == IF row.num # None THEN row.num[1] ELSE imported + 1

\* the INSERTs of a flush are refused when the store enforces foreign keys and a row breaks one
FlushFails(d, fk, pending) == fk /\ \E i \in 1..Len(pending) : ~FkHolds(d, pending[i])

\* faulty variant: a refused commit keeps the rows it was given
CommitBatch_KeepsTail(d, fk, acc) == IF acc.failed THEN acc ELSE IF FlushFails(d, fk, acc.pending) THEN [acc EXCEPT !.failed = TRUE, !.committed = @ \o acc.pending, !.pending = <<>>] ELSE [acc EXCEPT !.committed = @ \o acc.pending, !.pending = <<>>]

\* db.session.commit() in the risk pass: acc is [committed, pending, n, failed]
CommitBatch(d, fk, acc) == IF acc.failed THEN acc ELSE IF FlushFails(d, fk, acc.pending) THEN [acc EXCEPT !.failed = TRUE, !.pending = <<>>] ELSE [acc EXCEPT !.committed = @ \o acc.pending, !.pending = <<>>]

\* db.session.add(risk); the count; the commit of every BatchSize-th accepted row
AddRisk(d, fk, acc, risk) == IF (acc.n + 1) % BatchSize = 0 THEN CommitBatch(d, fk, [acc EXCEPT !.pending = Append(@, risk), !.n = @ + 1]) ELSE [acc EXCEPT !.pending = Append(@, risk), !.n = @ + 1]

\* faulty variant: the existence query does not see the rows added in this run
WebRiskRow_CommittedOnly(d, fk, acc, row) == IF FlushFails(d, fk, acc.pending) THEN [acc EXCEPT !.failed = TRUE, !.pending = <<>>] ELSE IF NumberExists(acc.committed, WebNumber(row, acc.n)) THEN acc ELSE IF AssetId(d.asset, row.asset) = None THEN acc ELSE AddRisk(d, fk, acc, WebRisk(d, WebNumber(row, acc.n), AssetId(d.asset, row.asset)[1], row))

\* app.py:496-534: one row of the loop; the existence query flushes the session first
WebRiskRow(d, fk, acc, row) == IF FlushFails(d, fk, acc.pending) THEN [acc EXCEPT !.failed = TRUE, !.pending = <<>>] ELSE IF NumberExists(acc.committed \o acc.pending, WebNumber(row, acc.n)) THEN acc ELSE IF AssetId(d.asset, row.asset) = None THEN acc ELSE AddRisk(d, fk, acc, WebRisk(d, WebNumber(row, acc.n), AssetId(d.asset, row.asset)[1], row))

\* the loop over the rows in sheet order (first half, then second half); an exception ends it
RECURSIVE WebRiskPass(_, _, _, _)
WebRiskPass(d, fk, rows, acc) == IF acc.failed \/ rows = <<>> THEN acc ELSE IF Len(rows) = 1 THEN WebRiskRow(d, fk, acc, rows[1]) ELSE WebRiskPass(d, fk, SubSeq(rows, (Len(rows) \div 2) + 1, Len(rows)), WebRiskPass(d, fk, SubSeq(rows, 1, Len(rows) \div 2), acc))

\* import_data.py:77-129: one row of the loop
CliRiskRow(d, fk, acc, row) == IF row.num = None THEN acc ELSE IF FlushFails(d, fk, acc.pending) THEN [acc EXCEPT !.failed = TRUE, !.pending = <<>>] ELSE IF NumberExists(acc.committed \o acc.pending, row.num[1]) THEN acc ELSE IF AssetId(d.asset, row.asset) = None THEN acc ELSE AddRisk(d, fk, acc, CliRisk(d, row.num[1], AssetId(d.asset, row.asset)[1], row))

\* the loop over the rows in sheet order (first half, then second half); an exception ends it
RECURSIVE CliRiskPass(_, _, _, _)
CliRiskPass(d, fk, rows, acc) == IF acc.failed \/ rows = <<>> THEN acc ELSE IF Len(rows) = 1 THEN CliRiskRow(d, fk, acc, rows[1]) ELSE CliRiskPass(d, fk, SubSeq(rows, (Len(rows) \div 2) + 1, Len(rows)), CliRiskPass(d, fk, SubSeq(rows, 1, Len(rows) \div 2), acc))

RiskAcc(d) == [committed |-> d.risk_assessment, pending |-> <<>>, n |-> 0, failed |-> FALSE]

\* faulty variant: the import logs a "created" audit row for each risk it adds
ImportOutcome_Logged(d, a, c, r) == [db |-> [d EXCEPT !.asset = a.asset, !.control = c.control, !.risk_assessment = r.committed, !.audit_log = @ \o [i \in 1..(Len(r.committed) - Len(d.risk_assessment)) |-> [risk_id |-> Len(d.risk_assessment) + i, action |-> "created", field_changed |-> "assessment_number", old_value |-> None, new_value |-> None, changed_by |-> "import"]]], status |-> IF r.failed THEN "error" ELSE "ok", assets_imported |-> a.n, controls_imported |-> c.n, risks_imported |-> r.n]

\* what an import leaves in the store and reports
ImportOutcome(d, a, c, r) == [db |-> [d EXCEPT !.asset = a.asset, !.control = c.control, !.risk_assessment = r.committed], status |-> IF r.failed THEN "error" ELSE "ok", assets_imported |-> a.n, controls_imported |-> c.n, risks_imported |-> r.n]

\* import_data (POST), app.py:421-595, fk: whether the store enforces foreign keys
ImportWeb(d, fk, doc) == LET a == WebAssetPass(AssetCells(doc), [asset |-> d.asset, n |-> 0])
                             c == IF doc.controls = None THEN [control |-> d.control, n |-> 0, counter |-> 1] ELSE WebControlPass(doc.controls[1], [control |-> d.control, n |-> 0, counter |-> 1])
                             d2 == [d EXCEPT !.asset = a.asset, !.control = c.control]
                         IN ImportOutcome(d, a, c, CommitBatch(d2, fk, WebRiskPass(d2, fk, doc.risks, RiskAcc(d))))

\* import_excel_data, import_data.py:10-137; reading a missing ControlMeasures sheet raises first
ImportCli(d, fk, doc) == IF doc.controls = None THEN [db |-> d, status |-> "error", assets_imported |-> 0, controls_imported |-> 0, risks_imported |-> 0] ELSE
                         LET d0 == InitLookupTables(d)
                             a == CliAssetPass(AssetCells(doc), [asset |-> d0.asset, n |-> 0])
                             c == CliControlPass(doc.controls[1], [control |-> d0.control, n |-> 0])
                             d2 == [d0 EXCEPT !.asset = a.asset, !.control = c.control]
                         IN ImportOutcome(d0, a, c, CommitBatch(d2, fk, CliRiskPass(d2, fk, doc.risks, RiskAcc(d0))))

-----------------------------------------------------------------------------
(* The documents and forms the model submits *)

AppToApi == <<"A", "p", "p", " ", "t", "o", " ", "A", "P", "I">>

AuthService == <<"A", "u", "t", "h", "e", "n", "t", "i", "c", "a", "t", "i", "o", "n", " ", "S", "e", "r", "v", "i", "c", "e">>

PayGateway == <<"P", "a", "y", "m", "e", "n", "t", " ", "G", "a", "t", "e", "w", "a", "y">>

SyncTo == <<" ", "S", "y", "n", "c", " ", "t", "o", " ">>

RiskRow(num, asset, stride) == [num |-> num, asset |-> asset, stride |-> stride, severity |-> None, pre_exploit |-> None, pre_rating |-> None, post_exploit |-> None, post_rating |-> None]

ControlRow(measure, description, tag) == [measure |-> measure, description |-> description, tag |-> tag]

\* one fully filled row and one control
DocA == [risks |-> << [RiskRow(Some(1), Some(AppToApi), Some(<<"S", "p", "o", "o", "f", "i", "n", "g">>)) EXCEPT !.severity = Some("3 - Serious"), !.pre_exploit = Some("5 - High"), !.pre_rating = Some("Remediation Required"), !.post_exploit = Some("1 - Low"), !.post_rating = Some("Acceptable")] >>, controls |-> Some(<< ControlRow(Some(<<"A", "C", "-", "1">>), Some(<<"E", "n", "c", "r", "y", "p", "t">>), Some(<<"N", "E", "T">>)) >>)]

\* assessment number 7 twice, with different assets
Doc7 == [risks |-> << RiskRow(Some(7), Some(PayGateway), None), RiskRow(Some(7), Some(AppToApi), Some(<<"T">>)) >>, controls |-> Some(<<>>)]

\* a numbered row, a row without a number, a row without an asset; two controls
DocMix == [risks |-> << RiskRow(Some(5), Some(AuthService), Some(<<"T">>)), RiskRow(None, Some(AuthService), None), RiskRow(Some(6), None, None) >>, controls |-> Some(<< ControlRow(Some(<<" ", "F", "W", "-", "2", " ">>), None, None), ControlRow(None, Some(<<"E", "n", "c", "r", "y", "p", "t">>), None) >>)]

\* a STRIDE cell outside the seeded codes, an asset cell with blanks around it, no controls sheet
DocX == [risks |-> << RiskRow(Some(3), Some(SyncTo), Some(<<"X", "-", "o", "t", "h", "e", "r">>)) >>, controls |-> None]

Docs == <<DocA, Doc7, DocMix, DocX>>

Entries == {"web", "cli"}

Import(entry, d, fk, doc) == IF entry = "web" THEN ImportWeb(d, fk, doc) ELSE ImportCli(d, fk, doc)

\* the forms of the update-only specification: every combination of these field values
Forms == [post_exploit_risk_id : {None, Some(9)}, post_risk_rating_id : {None, Some(2)}, notes : {None, Some(""), Some("n1")}, review_status : {None, Some("pending"), Some("reviewed"), Some("approved")}, reviewed_by : {None, Some("alice")}]

NoForm == [post_exploit_risk_id |-> None, post_risk_rating_id |-> None, notes |-> None, review_status |-> None, reviewed_by |-> None]

\* the forms of the whole-system specification: nothing supplied; a review by alice; an
\* approval by nobody; a return to pending; new lookup ids, one of them unknown to the store
CoreForms == {NoForm, [NoForm EXCEPT !.notes = Some("n1"), !.review_status = Some("reviewed"), !.reviewed_by = Some("alice")], [NoForm EXCEPT !.notes = Some("n1"), !.review_status = Some("approved")], [NoForm EXCEPT !.notes = Some(""), !.review_status = Some("pending"), !.reviewed_by = Some("alice")], [NoForm EXCEPT !.post_exploit_risk_id = Some(9), !.post_risk_rating_id = Some(1), !.notes = Some("n1"), !.reviewed_by = Some("alice")], [NoForm EXCEPT !.post_exploit_risk_id = Some(1), !.post_risk_rating_id = Some(2)]}

Workers == {"w1", "w2"}

\* requests (and restarts) served in one behaviour of Spec
MaxOps == 3

\* updates loaded in one behaviour
MaxUpdates == 2

-----------------------------------------------------------------------------
(* The state: the committed store, the session of each request worker between
   its load and its commit, the last response sent, whether the configured
   store enforces foreign keys (app.py:13: SQLite by default, which does not;
   PostgreSQL through DATABASE_URL, which does), the clock read by
   datetime.utcnow(), and the number of requests served. *)

VARIABLES db, sess, response, fkEnforced, clock, nOps

vars == <<db, sess, response, fkEnforced, clock, nOps>>

Idle == [pc |-> "idle"]

AllIdle == \A w \in Workers : sess[w].pc = "idle"

\* the module is imported: init_db() runs on a fresh store
Init == /\ db = InitDb(EmptyDb)
        /\ sess = [w \in Workers |-> Idle]
        /\ response = [op |-> "init_db", status |-> "ok"]
        /\ fkEnforced \in BOOLEAN
        /\ clock = 0
        /\ nOps = 0

\* the process starts again: requests in flight are dropped, init_db() runs
Restart == /\ db' = InitDb(db)
           /\ sess' = [w \in Workers |-> Idle]
           /\ response' = [op |-> "init_db", status |-> "ok"]
           /\ nOps' = nOps + 1
           /\ UNCHANGED <<fkEnforced, clock>>

\* faulty variant: an unknown id yields a blank record instead of 404
GetOr404_Blank(d, risk_id) == IF risk_id \in 1..Len(d.risk_assessment) THEN [status |-> "ok", risk |-> Some(d.risk_assessment[risk_id])] ELSE [status |-> "ok", risk |-> Some(NewRisk(0, 0, None, None, None, None, None, None))]

\* RiskAssessment.query.get_or_404(risk_id)
GetOr404(d, risk_id) == IF risk_id \in 1..Len(d.risk_assessment) THEN [status |-> "ok", risk |-> Some(d.risk_assessment[risk_id])] ELSE [status |-> "not_found", risk |-> None]

\* risk_detail
Read(risk_id) == /\ response' = [op |-> "read", risk_id |-> risk_id, status |-> GetOr404(db, risk_id).status, risk |-> GetOr404(db, risk_id).risk]
                 /\ nOps' = nOps + 1
                 /\ UNCHANGED <<db, sess, fkEnforced, clock>>

\* risk_update up to its commit: 404, or the diff staged in the worker's session
UpdateLoad(w, risk_id, form) == /\ sess[w].pc = "idle"
                                /\ IF GetOr404(db, risk_id).status = "not_found"
                                   THEN /\ response' = [op |-> "update", risk_id |-> risk_id, status |-> "not_found"]
                                        /\ UNCHANGED <<sess, clock>>
                                   ELSE /\ clock' = clock + 1
                                        /\ sess' = [sess EXCEPT ![w] = Stage(db, risk_id, GetOr404(db, risk_id).risk[1], form, clock + 1)]
                                        /\ UNCHANGED response
                                /\ nOps' = nOps + 1
                                /\ UNCHANGED <<db, fkEnforced>>

\* the row the commit would leave
Flushed(d, s) == Flush(d.risk_assessment[s.risk_id], s.loaded, s.staged)

\* db.session.commit() of risk_update and its redirect, or the store's refusal
UpdateCommit(w) == /\ sess[w].pc = "staged"
                   /\ IF fkEnforced /\ ~FkHolds(db, Flushed(db, sess[w]))
                      THEN /\ response' = [op |-> "update", risk_id |-> sess[w].risk_id, status |-> "error"]
                           /\ UNCHANGED db
                      ELSE /\ response' = [op |-> "update", risk_id |-> sess[w].risk_id, status |-> "ok"]
                           /\ db' = CommitUpdate(db, sess[w])
                   /\ sess' = [sess EXCEPT ![w] = Idle]
                   /\ UNCHANGED <<fkEnforced, clock, nOps>>

\* what the import reports: the counts on success, the error otherwise
ImportResponse(entry, k, out) == [op |-> "import", entry |-> entry, doc |-> k, status |-> out.status, assets_imported |-> out.assets_imported, controls_imported |-> out.controls_imported, risks_imported |-> out.risks_imported]

\* one import run, through the upload form or the command line
RunImport(entry, k) == /\ db' = Import(entry, db, fkEnforced, Docs[k]).db
                       /\ response' = ImportResponse(entry, k, Import(entry, db, fkEnforced, Docs[k]))
                       /\ nOps' = nOps + 1
                       /\ UNCHANGED <<sess, fkEnforced, clock>>

RiskIds == 1..(Len(db.risk_assessment) + 1)

\* the whole system, one writer at a time (spec section 5): a request starts when no
\* other is in flight
Next == \/ nOps < MaxOps /\ Restart
        \/ nOps < MaxOps /\ AllIdle /\ \E i \in RiskIds : Read(i)
        \/ nOps < MaxOps /\ clock < MaxUpdates /\ AllIdle /\ \E w \in Workers, i \in RiskIds, form \in CoreForms : UpdateLoad(w, i, form)
        \/ \E w \in Workers : UpdateCommit(w)
        \/ nOps < MaxOps /\ AllIdle /\ \E entry \in Entries, k \in 1..Len(Docs) : RunImport(entry, k)

Spec == Init /\ [][Next]_vars

\* the update protocol alone, on a store that holds the import of DocA
InitUpdate == /\ fkEnforced \in BOOLEAN
              /\ \E entry \in Entries : db = Import(entry, InitDb(EmptyDb), fkEnforced, DocA).db
              /\ sess = [w \in Workers |-> Idle]
              /\ response = [op |-> "init_db", status |-> "ok"]
              /\ clock = 0
              /\ nOps = 0

NextUpdate == \/ nOps < MaxUpdates /\ AllIdle /\ \E i \in RiskIds, form \in Forms : UpdateLoad("w1", i, form)
              \/ UpdateCommit("w1")

SpecUpdate == InitUpdate /\ [][NextUpdate]_vars

-----------------------------------------------------------------------------
(* Vocabulary of the properties *)

RiskRows == db.risk_assessment

\* the step commits the update staged by worker w
Committed(w) == sess[w].pc = "staged" /\ sess'[w].pc = "idle" /\ response'.op = "update" /\ response'.status = "ok"

\* the AuditLog rows the step adds
NewLogs == SubSeq(db'.audit_log, Len(db.audit_log) + 1, Len(db'.audit_log))

\* the columns a form can propose a value for
CandidateColumns == {"post_exploit_risk_id", "post_risk_rating_id", "notes", "review_status"}

\* the columns of a risk row, without the derived reviewer stamp
AuditedColumns == {"assessment_number", "asset_id", "stride_code", "severity_id", "pre_exploit_risk_id", "pre_risk_rating_id", "post_exploit_risk_id", "post_risk_rating_id", "assessment_year", "review_status", "notes"}

\* the field name an audit row carries for a column
FieldName(c) == IF c = "post_exploit_risk_id" THEN "post_exploit_risk" ELSE IF c = "post_risk_rating_id" THEN "post_risk_rating" ELSE c

Logged(logs, c) == \E i \in 1..Len(logs) : logs[i].field_changed = FieldName(c)

\* the form proposes nothing new: each candidate field is omitted or equals the stored value
ProposesNothing(form, row) == \A c \in CandidateColumns : form[c] = None \/ form[c] = row[c]

InReview == {Some("reviewed"), Some("approved")}

-----------------------------------------------------------------------------
(* C1: every applied update creates exactly as many audit rows as candidate
   fields whose stored value changed, one naming each changed field; a form
   whose values are all omitted or equal to the stored ones creates none; a
   form with the stored rating and new notes creates exactly one, for notes. *)
C1_AuditRowsMatchChanges == [][\A w \in Workers : Committed(w) =>
    LET before == RiskRows[sess[w].risk_id]
        after == db'.risk_assessment[sess[w].risk_id]
        form == sess[w].form
    IN /\ Len(NewLogs) = Cardinality({c \in CandidateColumns : before[c] # after[c]})
       /\ \A c \in CandidateColumns : before[c] # after[c] => Logged(NewLogs, c)
       /\ ProposesNothing(form, before) => Len(NewLogs) = 0
       /\ (form.post_risk_rating_id = before.post_risk_rating_id /\ form.notes # None /\ form.notes # before.notes /\ form.post_exploit_risk_id = None /\ form.review_status = None) => (Len(NewLogs) = 1 /\ NewLogs[1].field_changed = "notes")]_vars

(* C3: every column an update changes, other than the derived reviewer stamp,
   has an audit row of that update; an update that proposes no new value
   changes no such column, the assessment year included. *)
C3_EveryMutationAudited == [][\A w \in Workers : Committed(w) =>
    LET before == RiskRows[sess[w].risk_id]
        after == db'.risk_assessment[sess[w].risk_id]
    IN /\ \A c \in AuditedColumns : before[c] # after[c] => Logged(NewLogs, c)
       /\ ProposesNothing(sess[w].form, before) => \A c \in AuditedColumns : after[c] = before[c]]_vars

\* the step commits an update that moves record i into reviewed or approved
MovesIntoReview(w, i) == Committed(w) /\ sess[w].risk_id = i /\ sess[w].form.review_status \in InReview /\ sess[w].form.review_status # RiskRows[i].review_status

\* the actor a form submits
Submitted(form) == IF form.reviewed_by = None THEN Some("Unknown") ELSE form.reviewed_by

(* C4: a record in reviewed or approved has a reviewed-at, and its reviewed-by
   is the actor of the update that last moved it there ("Unknown" without
   one): each step either is such an update, and sets it to that update's
   actor, or leaves the reviewed-by of a record already there as it was. *)
C4_ReviewerIsLastMover == [][\A i \in 1..Len(db'.risk_assessment) : db'.risk_assessment[i].review_status \in InReview =>
    /\ db'.risk_assessment[i].reviewed_at # None
    /\ IF \E w \in Workers : MovesIntoReview(w, i)
       THEN \A w \in Workers : MovesIntoReview(w, i) => db'.risk_assessment[i].reviewed_by = Submitted(sess[w].form)
       ELSE i <= Len(RiskRows) /\ RiskRows[i].review_status \in InReview /\ db'.risk_assessment[i].reviewed_by = RiskRows[i].reviewed_by]_vars

\* an approval without an actor after a review by alice: the reviewer is "Unknown"
C4_Witness == \E i \in 1..Len(RiskRows) : /\ RiskRows[i].review_status = Some("approved")
                                          /\ RiskRows[i].reviewed_by = Some("Unknown")
                                          /\ RiskRows[i].reviewed_at # None
                                          /\ \E j \in 1..Len(db.audit_log) : db.audit_log[j].risk_id = i /\ db.audit_log[j].field_changed = "review_status" /\ db.audit_log[j].new_value = Some("reviewed") /\ db.audit_log[j].changed_by = "alice"

\* the step is one import run
ImportStep == nOps' = nOps + 1 /\ sess' = sess /\ response'.op = "import"

(* C2: an import run right after a successful run of the same document through
   the same entry point reports no risk and no asset imported and adds no
   RiskAssessment and no Asset row. *)
C2_SecondImportAddsNothing == [][(ImportStep /\ response.op = "import" /\ response.status = "ok" /\ response'.doc = response.doc /\ response'.entry = response.entry) =>
    /\ response'.risks_imported = 0
    /\ response'.assets_imported = 0
    /\ Len(db'.risk_assessment) = Len(RiskRows)
    /\ Len(db'.asset) = Len(db.asset)]_vars

\* a two-row document whose rows both carry number n, with different assets
RepeatsNumber(doc, n) == /\ Len(doc.risks) = 2
                         /\ doc.risks[1].num = Some(n) /\ doc.risks[2].num = Some(n)
                         /\ doc.risks[1].asset # None /\ doc.risks[2].asset # None
                         /\ Strip(doc.risks[1].asset[1]) # Strip(doc.risks[2].asset[1])

\* the ids of the records of a table that carry number n
Numbered(rows, n) == {i \in 1..Len(rows) : rows[i].assessment_number = n}

\* the step imports such a document into a store without record 7 and without row 1's asset
ImportsRepeated7 == /\ ImportStep /\ response'.status = "ok"
                    /\ RepeatsNumber(Docs[response'.doc], 7)
                    /\ Numbered(RiskRows, 7) = {}
                    /\ ~AssetExists(db.asset, Strip(Docs[response'.doc].risks[1].asset[1]))

\* exactly one record numbered 7 exists afterwards, new, on the asset of row 1
OneRecord7 == \E i \in (Len(RiskRows) + 1)..Len(db'.risk_assessment) : /\ Numbered(db'.risk_assessment, 7) = {i}
                                                                        /\ db'.asset[db'.risk_assessment[i].asset_id].name = Strip(Docs[response'.doc].risks[1].asset[1])

\* a row whose number is already stored is skipped: no number gains a second record
NoNumberRepeated == \A i \in (Len(RiskRows) + 1)..Len(db'.risk_assessment) : Numbered(db'.risk_assessment, db'.risk_assessment[i].assessment_number) = {i}

\* the distinct trimmed asset names of a document that the store does not hold
NewAssetNames(doc, assets) == {Strip(doc.risks[i].asset[1]) : i \in {j \in 1..Len(doc.risks) : doc.risks[j].asset # None /\ ~AssetExists(assets, Strip(doc.risks[j].asset[1]))}}

(* C5 as stated: importing the two-row document creates exactly one record
   numbered 7, row 1's, and exactly one new Asset; any import skips a row
   whose number is already stored. *)
C5_OneRiskOneAsset == [][(ImportStep => NoNumberRepeated) /\ (ImportsRepeated7 => (OneRecord7 /\ Len(db'.asset) = Len(db.asset) + 1))]_vars

(* C5 amended: importing the two-row document creates exactly one record
   numbered 7, row 1's, and one new Asset for each distinct asset name of the
   document that the store did not hold (two when row 2's asset is new as
   well, one when it is already stored); any import skips a row whose number
   is already stored. *)
C5_OneRiskAssetPerNewName == [][(ImportStep => NoNumberRepeated) /\ (ImportsRepeated7 => (OneRecord7 /\ Len(db'.asset) = Len(db.asset) + Cardinality(NewAssetNames(Docs[response'.doc], db.asset))))]_vars

\* Doc7 imported into a store that already held row 2's asset: one record 7, one new asset
C5_Witness == /\ response.op = "import" /\ response.status = "ok" /\ RepeatsNumber(Docs[response.doc], 7)
              /\ response.risks_imported = 1 /\ response.assets_imported = 1
              /\ Cardinality(Numbered(RiskRows, 7)) = 1
              /\ Len(db.asset) = 2 /\ Len(RiskRows) = 2

\* the type the name of an asset calls for
TypeByName(name) == IF Contains(name, KwTo) THEN "DataFlow" ELSE IF \E k \in ProcessKeywords : Contains(Lower(name), k) THEN "Process" ELSE "Component"

(* C6: every Asset an import creates is typed by its name: DataFlow if it
   contains " to ", otherwise Process if it contains management,
   authentication or calculate, otherwise Component. *)
C6_AssetTypedByName == \A i \in 1..Len(db.asset) : db.asset[i].asset_type = TypeByName(db.asset[i].name)

\* the step is a read
ReadStep == nOps' = nOps + 1 /\ sess' = sess /\ response'.op = "read"

\* the step answers an update request without staging it
RefusedUpdateStep == nOps' = nOps + 1 /\ sess' = sess /\ response'.op = "update"

(* C7: a read of an unknown id answers NotFound with no record, and a read of
   a known id answers the stored record; an update of an unknown id answers
   NotFound, is never staged, and changes nothing in the store. *)
C7_UnknownIdIsNotFound == [][/\ ReadStep => IF response'.risk_id \in 1..Len(RiskRows) THEN response'.status = "ok" /\ response'.risk = Some(RiskRows[response'.risk_id]) ELSE response'.status = "not_found" /\ response'.risk = None
                             /\ RefusedUpdateStep => (response'.status = "not_found" /\ response'.risk_id \notin 1..Len(RiskRows) /\ db' = db)
                             /\ \A w \in Workers : (sess[w].pc = "idle" /\ sess'[w].pc = "staged") => (sess'[w].risk_id \in 1..Len(RiskRows) /\ sess'[w].loaded = RiskRows[sess'[w].risk_id] /\ db' = db)]_vars

\* an update of an id past the last record of a store that holds records and audit rows
C7_Witness == response.op = "update" /\ response.status = "not_found" /\ response.risk_id = Len(RiskRows) + 1 /\ Len(RiskRows) > 0 /\ Len(db.audit_log) > 0

\* a nullable reference is None or the key of a row of the table
RefOk(ref, keys) == ref = None \/ ref[1] \in keys

(* C8: in every reachable state each RiskAssessment references an existing
   Asset, and each of its lookup references is null or an existing row. *)
C8_ReferentialIntegrity == \A i \in 1..Len(RiskRows) :
    /\ RiskRows[i].asset_id \in 1..Len(db.asset)
    /\ RefOk(RiskRows[i].stride_code, {db.stride_category[j].code : j \in 1..Len(db.stride_category)})
    /\ RefOk(RiskRows[i].severity_id, 1..Len(db.severity_level))
    /\ RefOk(RiskRows[i].pre_exploit_risk_id, 1..Len(db.exploit_risk_level))
    /\ RefOk(RiskRows[i].post_exploit_risk_id, 1..Len(db.exploit_risk_level))
    /\ RefOk(RiskRows[i].pre_risk_rating_id, 1..Len(db.risk_rating))
    /\ RefOk(RiskRows[i].post_risk_rating_id, 1..Len(db.risk_rating))

\* the step changes a stored record or the audit log
TouchesRecords == db'.audit_log # db.audit_log \/ \E i \in 1..Len(RiskRows) : db'.risk_assessment[i] # RiskRows[i]

\* the store after the step holds every change and every audit row staged by worker w, and nothing else new
AllOf(w) == /\ sess[w].pc = "staged"
            /\ db'.audit_log = db.audit_log \o sess[w].logs
            /\ \A c \in DOMAIN sess[w].staged : sess[w].staged[c] # sess[w].loaded[c] => db'.risk_assessment[sess[w].risk_id][c] = sess[w].staged[c]
            /\ \A i \in 1..Len(RiskRows) : i # sess[w].risk_id => db'.risk_assessment[i] = RiskRows[i]

(* C9: an update is atomic with its audit trail: a step that changes a stored
   record or the audit log commits all the field changes and all the audit
   rows of one update together; every other step (the load, a refused commit,
   a restart that drops the request) leaves records and audit log as they were. *)
C9_UpdateAtomicWithAudit == [][TouchesRecords => \E w \in Workers : AllOf(w)]_vars

\* a committed update with two or more audit rows, its changes in the record
C9_Witness == /\ response.op = "update" /\ response.status = "ok"
              /\ Len(db.audit_log) >= 2
              /\ \A j \in 1..Len(db.audit_log) : db.audit_log[j].risk_id = response.risk_id
              /\ RiskRows[response.risk_id].notes = Some("n1")
              /\ RiskRows[response.risk_id].review_status \in InReview

IsPrefix(s, t) == Len(s) <= Len(t) /\ SubSeq(t, 1, Len(s)) = s

(* C10: the audit log is append-only, and only the commit of an update
   appends to it: a restart (seeding) or an import adds no row. *)
C10_AuditAppendOnly == [][/\ IsPrefix(db.audit_log, db'.audit_log)
                          /\ db'.audit_log # db.audit_log => \E w \in Workers : Committed(w)]_vars

\* an import that adds records to a store whose audit log has rows
C10_Witness == response.op = "import" /\ response.status = "ok" /\ response.risks_imported > 0 /\ Len(db.audit_log) > 0

-----------------------------------------------------------------------------
Statuses == {Some("pending"), Some("reviewed"), Some("approved")}

\* the step ends the update request of worker w: its commit, or the store's refusal
Answered(w) == sess[w].pc = "staged" /\ sess'[w].pc = "idle" /\ response'.op = "update"

\* the audit rows of a sequence that carry a field name
RowsOf(logs, field) == {j \in 1..Len(logs) : logs[j].field_changed = field}

\* the form proposes a lookup id that the store does not hold
ProposesUnknownId(form) == \/ TruthyInt(form.post_exploit_risk_id) /\ form.post_exploit_risk_id[1] \notin 1..Len(db.exploit_risk_level)
                           \/ TruthyInt(form.post_risk_rating_id) /\ form.post_risk_rating_id[1] \notin 1..Len(db.risk_rating)

(* C11: no review-status transition is blocked.  An update that proposes a
   status different from the stored one, whatever the two values are, leaves
   the record with the proposed status and adds exactly one review_status
   audit row, from the stored to the proposed value; an approved record still
   takes the other fields of an update; and the store refuses an update only
   for a lookup id it does not hold, never for its status. *)
C11_NoTransitionBlocked == [][\A w \in Workers : Answered(w) =>
    LET before == RiskRows[sess[w].risk_id]
        after == db'.risk_assessment[sess[w].risk_id]
        form == sess[w].form
    IN IF response'.status = "ok"
       THEN /\ (form.review_status \in Statuses /\ before.review_status \in Statuses /\ form.review_status # before.review_status) =>
                  /\ after.review_status = form.review_status
                  /\ \E j \in 1..Len(NewLogs) : /\ RowsOf(NewLogs, "review_status") = {j}
                                                /\ NewLogs[j].old_value = before.review_status
                                                /\ NewLogs[j].new_value = form.review_status
            /\ before.review_status = Some("approved") =>
                  /\ form.notes # None => after.notes = form.notes
                  /\ TruthyInt(form.post_exploit_risk_id) => after.post_exploit_risk_id = form.post_exploit_risk_id
                  /\ TruthyInt(form.post_risk_rating_id) => after.post_risk_rating_id = form.post_risk_rating_id
       ELSE ProposesUnknownId(form) /\ db' = db]_vars

\* an approved record was sent back to pending, and the audit log holds that row
C11_Witness == \E i \in 1..Len(RiskRows) : /\ RiskRows[i].review_status = Some("pending")
                                           /\ \E j \in 1..Len(db.audit_log) : /\ db.audit_log[j].risk_id = i
                                                                              /\ db.audit_log[j].field_changed = "review_status"
                                                                              /\ db.audit_log[j].old_value = Some("approved")
                                                                              /\ db.audit_log[j].new_value = Some("pending")

-----------------------------------------------------------------------------
\* the four lookup tables of a store
Lookups(d) == <<d.stride_category, d.severity_level, d.exploit_risk_level, d.risk_rating>>

(* C12: lookup seeding is idempotent.  In every reachable state, after any
   number of restarts and command-line imports (each of which runs the seed
   routine again), the StrideCategory, SeverityLevel, ExploitRiskLevel and
   RiskRating tables hold exactly one copy of the seed data. *)
C12_LookupsSeededOnce == Lookups(db) = <<stride_data, severity_data, exploit_data, ratings>>

\* the process has started again on a store that holds records: a further seed run
C12_Witness == response.op = "init_db" /\ nOps >= 2 /\ Len(RiskRows) > 0 /\ Len(db.stride_category) = Len(stride_data)

-----------------------------------------------------------------------------
\* the form does not supply the column, or supplies it empty
Omits(form, c) == form[c] = None \/ (c \in {"notes", "review_status"} /\ form[c] = Some(""))

(* C13: a candidate field that the form omits or submits empty is skipped:
   for post-mitigation exploit risk, post-mitigation rating, notes and review
   status alike, the committed update leaves the stored value of that column
   as it was and adds no audit row for it, whatever the stored value is. *)
C13_OmittedFieldSkipped == [][\A w \in Workers : Committed(w) =>
    \A c \in CandidateColumns : Omits(sess[w].form, c) =>
        /\ db'.risk_assessment[sess[w].risk_id][c] = RiskRows[sess[w].risk_id][c]
        /\ ~Logged(NewLogs, c)]_vars

-----------------------------------------------------------------------------
\* the reviewer stamp of a record
StampOf(row) == <<row.reviewed_by, row.reviewed_at>>

(* C14: reviewed-by and reviewed-at change only on a transition into reviewed
   or approved: a committed update that leaves the status as it was (whatever
   actor it submits) or that moves it to pending leaves both as they were; no
   other step changes them on a stored record; and no audit row ever names
   reviewed_by or reviewed_at as its field. *)
C14_StampOnlyOnReview == [][/\ \A w \in Workers : Committed(w) =>
                                LET before == RiskRows[sess[w].risk_id]
                                    after == db'.risk_assessment[sess[w].risk_id]
                                IN (after.review_status = before.review_status \/ after.review_status = Some("pending")) => StampOf(after) = StampOf(before)
                            /\ \A i \in 1..Len(RiskRows) : StampOf(db'.risk_assessment[i]) # StampOf(RiskRows[i]) => \E w \in Workers : MovesIntoReview(w, i)
                            /\ \A j \in 1..Len(db'.audit_log) : db'.audit_log[j].field_changed \notin {"reviewed_by", "reviewed_at"}]_vars

\* a record reviewed by alice was sent back to pending by an update without an actor: alice's stamp stays
C14_Witness == \E i \in 1..Len(RiskRows) : /\ RiskRows[i].review_status = Some("pending")
                                           /\ RiskRows[i].reviewed_by = Some("alice")
                                           /\ RiskRows[i].reviewed_at # None
                                           /\ \E j \in 1..Len(db.audit_log) : /\ db.audit_log[j].risk_id = i
                                                                              /\ db.audit_log[j].field_changed = "review_status"
                                                                              /\ db.audit_log[j].new_value = Some("pending")
                                                                              /\ db.audit_log[j].changed_by = "Unknown"

-----------------------------------------------------------------------------
(* Imports of documents longer than one commit batch.  Every row names the
   same asset; row `bad` carries a STRIDE cell that is not a seeded code, so
   a store that enforces foreign keys refuses the flush that inserts it. *)

\* rows of a long document past its last full batch
TailRows == 2

\* imports in one behaviour of SpecBatch
MaxImports == 2

LongRows(n, bad) == [i \in 1..n |-> RiskRow(Some(i), Some(AppToApi), Some(IF i = bad THEN <<"X">> ELSE <<"T">>))]

LongDoc(n, bad) == [risks |-> LongRows(n, bad), controls |-> Some(<< ControlRow(Some(<<"A", "C", "-", "1">>), None, None) >>)]

\* no bad row; the bad row closes the first batch; opens the second; is the last row;
\* closes the second batch
LongDocs == <<LongDoc(BatchSize + TailRows, 0), LongDoc(BatchSize + TailRows, BatchSize), LongDoc(BatchSize + TailRows, BatchSize + 1), LongDoc(BatchSize + TailRows, BatchSize + TailRows), LongDoc(2 * BatchSize + TailRows, 2 * BatchSize)>>

\* one import run of a long document
RunLongImport(entry, k) == /\ db' = Import(entry, db, fkEnforced, LongDocs[k]).db
                           /\ response' = ImportResponse(entry, k, Import(entry, db, fkEnforced, LongDocs[k]))
                           /\ nOps' = nOps + 1
                           /\ UNCHANGED <<sess, fkEnforced, clock>>

NextBatch == nOps < MaxImports /\ \E entry \in Entries, k \in 1..Len(LongDocs) : RunLongImport(entry, k)

SpecBatch == Init /\ [][NextBatch]_vars

\* the step is an import run that ends with an exception
FailedLongImport == ImportStep /\ response'.status = "error"

\* the records the store would hold had every flush of the run been accepted
FaultFree == Import(response'.entry, db, FALSE, LongDocs[response'.doc]).db.risk_assessment

\* after a failed run that had accepted k rows: the asset and control passes are kept,
\* and of the accepted rows exactly the first `kept` are stored
KeepsFirst(kept) == /\ IsPrefix(db.asset, db'.asset) /\ Len(db'.asset) = Len(db.asset) + response'.assets_imported
                    /\ IsPrefix(db.control, db'.control) /\ Len(db'.control) = Len(db.control) + response'.controls_imported
                    /\ db'.risk_assessment = SubSeq(FaultFree, 1, Len(RiskRows) + kept)

(* C15 as stated: when an import fails in the risk pass after accepting k
   rows, the assets and controls of the earlier passes stay, and exactly the
   first 100 * floor(k / 100) accepted rows stay, with none of the tail. *)
C15_KeepsFloorBatches == [][FailedLongImport => KeepsFirst(BatchSize * (response'.risks_imported \div BatchSize))]_vars

\* the accepted rows of the batches whose commit completed: when k is a multiple of the
\* batch size the exception comes from the commit of the k-th row (after a completed
\* commit nothing is pending), and that batch is not stored
CommittedOf(k) == IF k > 0 /\ k % BatchSize = 0 THEN k - BatchSize ELSE BatchSize * (k \div BatchSize)

(* C15 amended: when an import fails in the risk pass after accepting k rows,
   the assets and controls of the earlier passes stay, and exactly the
   accepted rows of the batches whose commit completed stay: the first
   100 * floor(k / 100), or the first k - 100 when the exception is raised by
   the commit of the k-th accepted row itself; none of the tail stays. *)
C15_KeepsCommittedBatches == [][FailedLongImport => KeepsFirst(CommittedOf(response'.risks_imported))]_vars

\* a run failed in the commit of its second batch: the first batch, the asset and the control are stored
C15_Witness == /\ response.op = "import" /\ response.status = "error"
               /\ response.risks_imported = 2 * BatchSize
               /\ Len(RiskRows) = BatchSize
               /\ Len(db.asset) = 1 /\ Len(db.control) = 1

-----------------------------------------------------------------------------
\* the trimmed texts of the non-empty rows of a document's controls sheet
ControlTexts(doc) == IF doc.controls = None THEN {} ELSE {Strip(doc.controls[1][i].measure[1]) : i \in {j \in 1..Len(doc.controls[1]) : doc.controls[1][j].measure # None}}

\* a control with this description is stored
DescriptionStored(controls, text) == \E i \in 1..Len(controls) : controls[i].description = Some(Prefix(text, DescriptionMax))

\* the sequential ids C-0001, C-0002, ... up to n
SequentialIds(n) == {CtrlId(m) : m \in 1..n}

(* C16: the control pass of a successful upload import creates one new
   Control, with a fresh id of the sequence C-0001, C-0002, ..., for each
   non-empty controls-sheet row whose description is not stored yet, and none
   for a row already stored, whether or not the store already held controls
   of another document. *)
C16_ControlPerNewRow == [][(ImportStep /\ response'.entry = "web" /\ response'.status = "ok") =>
    LET doc == Docs[response'.doc]
        fresh == {t \in ControlTexts(doc) : ~DescriptionStored(db.control, t)}
        added == (Len(db.control) + 1)..Len(db'.control)
    IN /\ IsPrefix(db.control, db'.control)
       /\ Cardinality(added) = Cardinality(fresh)
       /\ \A t \in fresh : DescriptionStored(db'.control, t)
       /\ \A i \in added : /\ db'.control[i].id \in SequentialIds(Len(db'.control))
                           /\ \A j \in 1..Len(db'.control) : db'.control[j].id = db'.control[i].id => j = i]_vars

-----------------------------------------------------------------------------
(* Update requests served concurrently: a request may load a record while
   another request's session is still open.  Each request has its own session
   and transaction; the store does not compare the row with what was loaded. *)

NextRace == \/ nOps < MaxUpdates /\ \E w \in Workers, i \in RiskIds, form \in CoreForms : UpdateLoad(w, i, form)
            \/ \E w \in Workers : UpdateCommit(w)

SpecRace == InitUpdate /\ [][NextRace]_vars

\* the audit rows of the log for a record and a field, in log order
Trail(logs, i, field) == SelectSeq(logs, LAMBDA r : r.risk_id = i /\ r.field_changed = field)

(* C17: updates of one record are not serialized.  A commit is never refused
   or dropped because the row changed after it was loaded: every column the
   update changed takes its value (the last writer wins), and its notes and
   review_status audit rows carry the old value it loaded, not the value it
   overwrites; so two updates loaded from the same row can both commit. *)
C17_LastWriteWins == [][\A w \in Workers : Answered(w) =>
    LET s == sess[w]
        after == db'.risk_assessment[s.risk_id]
    IN IF response'.status = "ok"
       THEN /\ \A c \in DOMAIN s.staged : s.staged[c] # s.loaded[c] => after[c] = s.staged[c]
            /\ \A c \in {"notes", "review_status"} : s.staged[c] # s.loaded[c] =>
                   \E j \in 1..Len(NewLogs) : /\ NewLogs[j].risk_id = s.risk_id
                                              /\ NewLogs[j].field_changed = c
                                              /\ NewLogs[j].old_value = StrOrNone(s.loaded[c])
                                              /\ NewLogs[j].new_value = StrOrNone(s.staged[c])
       ELSE ProposesUnknownId(s.form)]_vars

\* two updates of the review status, both loaded from the pending record, have both
\* committed: two audit rows with the same old value, and the later one's value is stored
C17_Witness == /\ AllIdle
               /\ \E i \in 1..Len(RiskRows) : LET t == Trail(db.audit_log, i, "review_status")
                                              IN /\ Len(t) = 2
                                                 /\ t[1].old_value = Some("pending") /\ t[2].old_value = Some("pending")
                                                 /\ t[1].new_value # t[2].new_value
                                                 /\ RiskRows[i].review_status = t[2].new_value

-----------------------------------------------------------------------------
(* C18: an import only adds rows: every import run, first or repeated,
   successful or failed, leaves each RiskAssessment and each Asset that was
   stored before the run exactly as it was, under the same id; what earlier
   updates set (status, reviewer, notes, post-mitigation values) survives. *)
C18_ImportOnlyAdds == [][ImportStep => (IsPrefix(db.asset, db'.asset) /\ IsPrefix(RiskRows, db'.risk_assessment))]_vars

\* an import has run over a store that holds a record reviewed and annotated by an earlier update
C18_Witness == /\ response.op = "import"
               /\ Len(db.audit_log) > 0
               /\ \E i \in 1..Len(RiskRows) : /\ RiskRows[i].review_status \in InReview
                                              /\ RiskRows[i].reviewed_by # None
                                              /\ RiskRows[i].notes = Some("n1")
                                              /\ RiskRows[i].assessment_year = Some(UpdateYear)

-----------------------------------------------------------------------------
\* the field names audit rows are written for
AuditedFields == {"post_exploit_risk", "post_risk_rating", "notes", "review_status"}

\* the value an audit row records for the stored value of a field of record i: the
\* name of the lookup row for the two lookups, the text otherwise, null for an empty text
Recorded(d, i, field) == IF field = "post_exploit_risk" THEN NameOf(d.exploit_risk_level, d.risk_assessment[i].post_exploit_risk_id)
                         ELSE IF field = "post_risk_rating" THEN NameOf(d.risk_rating, d.risk_assessment[i].post_risk_rating_id)
                         ELSE IF field = "notes" THEN StrOrNone(d.risk_assessment[i].notes)
                         ELSE StrOrNone(d.risk_assessment[i].review_status)

(* C19: with one writer at a time the audit rows of a record and field form
   a chain: each row's old value is the new value of the row before it; the
   first row's old value is the value the record had until then, which is its
   value at creation, since a field without audit rows never changes its
   recorded value; and the last row's new value is the recorded form of the
   value now stored (an empty text counts as null). *)
C19_AuditChain == [][\A i \in 1..Len(db'.risk_assessment) : \A field \in AuditedFields :
    LET before == IF i <= Len(RiskRows) THEN Trail(db.audit_log, i, field) ELSE <<>>
        after == Trail(db'.audit_log, i, field)
    IN /\ \A k \in 2..Len(after) : after[k].old_value = after[k - 1].new_value
       /\ Len(after) > 0 => after[Len(after)].new_value = Recorded(db', i, field)
       /\ (Len(after) = 0 /\ i <= Len(RiskRows)) => Recorded(db', i, field) = Recorded(db, i, field)
       /\ (Len(before) = 0 /\ Len(after) > 0) => (i <= Len(RiskRows) /\ after[1].old_value = Recorded(db, i, field))]_vars

\* a record reviewed and then approved, its notes first set empty and then written
C19_Witness == \E i \in 1..Len(RiskRows) : LET s == Trail(db.audit_log, i, "review_status")
                                               n == Trail(db.audit_log, i, "notes")
                                           IN /\ Len(s) = 2 /\ s[1].new_value = Some("reviewed") /\ s[2].old_value = Some("reviewed")
                                              /\ RiskRows[i].review_status = Some("approved")
                                              /\ Len(n) = 2 /\ n[1].new_value = None /\ n[2].old_value = None
                                              /\ RiskRows[i].notes = Some("n1")

====
